---- MODULE Spec2Model ----
(***************************************************************************)
(* Model of yo1k/qaws/qaws_app.py: the POST / handler                      *)
(* QAWS.request_questions, the question source behind it, the INSERT ...   *)
(* ON CONFLICT (id) DO NOTHING statement of PgStorageService and the       *)
(* per-request connection (get_conn / close_conn) whose transaction spans  *)
(* the whole request.                                                      *)
(*                                                                         *)
(* The table "questions" is a bag of row versions stamped with the         *)
(* inserting transaction (xmin), as in PostgreSQL: a row is live while its *)
(* transaction is in progress or committed, dead once it aborted.  The     *)
(* INSERT is executed row by row, and a row whose id is held by another    *)
(* in-progress transaction makes the statement wait for that transaction   *)
(* to end (READ COMMITTED, the default isolation level of the connection). *)
(*                                                                         *)
(* Only the INSERT's rows, a failing statement and the commit at teardown  *)
(* touch state that requests share, so each is an action of its own; the   *)
(* handler's steps between two of them (the assert, get_questions, the     *)
(* loop head) read and write locals only and are taken together with the   *)
(* step before them.                                                       *)
(***************************************************************************)
EXTENDS Integers, Sequences, FiniteSets, Bags, TLC

\* ---------------------------------------------------------------- bounds
\* Largest identity the source can produce.
MaxId == 3
\* Largest questions_num a client sends.
MaxNum == 2
\* The loop's retry count.  The literal of the code is 100
\* (qaws_app.py:126); the model runs the same loop with a scaled-down count.
RetryBudget == 2
\* Longest JSON array handed to __prepare_questions on its own.
MaxLen == 2

Reqs == {"r1", "r2"}
Ids == 1 .. MaxId
Fields == {"id", "question", "answer", "created_at"}

\* ------------------------------------------------------------ the source
\* One JSON object of the upstream API carrying identity i.
Item(i) ==
    [id |-> i, question |-> <<"Q", i>>, answer |-> <<"A", i>>,
     created_at |-> <<"T", i>>]

\* The same object with field f absent.
ItemWithout(i, f) == [k \in Fields \ {f} |-> Item(i)[k]]

\* JSONQuestionService.get_questions(num): the decoded JSON array, num
\* objects long (the upstream API answers ?count=num with num objects);
\* here the arrays whose objects are all complete ...
CompleteBatches(num) == [1 .. num -> {Item(i) : i \in Ids}]

\* ... and arrays in which one object lacks one field.
DefectiveBatches(num) ==
    {[[k \in 1 .. num |-> Item(1)] EXCEPT ![j] = ItemWithout(1, f)] :
        j \in 1 .. num, f \in Fields}

\* PreparedQuestions([], [], [], [])
EmptyPrepared == [id |-> <<>>, question |-> <<>>, answer |-> <<>>, created_at |-> <<>>]

\* question["id"] ... question["created_at"]: a KeyError when one is absent.
HasAllFields(question) == Fields \subseteq DOMAIN question

\* The exception question[...] raises on an absent field.
KeyError == [raised |-> "KeyError"]

\* DefaultQuestionService.__prepare_questions: the four columns, appended
\* item by item.
RECURSIVE PrepareFrom(_, _, _)
PrepareFrom(questions, i, prep) ==
    IF i > Len(questions) THEN prep
    ELSE IF ~HasAllFields(questions[i]) THEN KeyError
    ELSE PrepareFrom(questions, i + 1,
            [id |-> Append(prep.id, questions[i]["id"]),
             question |-> Append(prep.question, questions[i]["question"]),
             answer |-> Append(prep.answer, questions[i]["answer"]),
             created_at |-> Append(prep.created_at, questions[i]["created_at"])])

\* Mutant of prepare_questions: the question and answer columns are
\* swapped.
prepare_questions_swapped(questions) ==
    LET prep == PrepareFrom(questions, 1, EmptyPrepared)
    IN  IF prep = KeyError THEN KeyError
        ELSE [id |-> prep.id, question |-> prep.answer, answer |-> prep.question,
              created_at |-> prep.created_at]

prepare_questions(questions) == PrepareFrom(questions, 1, EmptyPrepared)

\* JSON objects the source may answer with: complete, or lacking a field.
RawItems ==
    {Item(i) : i \in Ids} \cup {ItemWithout(i, f) : i \in Ids, f \in Fields}

\* JSON arrays of up to MaxLen such objects.
RawBatches == UNION {[1 .. k -> RawItems] : k \in 0 .. MaxLen}

\* ------------------------------------------------------------- the state
VARIABLES
    table,          \* bag of row versions of the table "questions"
    xact,           \* per connection: state of its transaction
    conn,           \* per request: g.conn ("none", "held", "returned")
    pc,             \* per request: position in the handler
    input,          \* per request: the JSON value of 'questions_num'
    questions_num,  \* per request: local of request_questions
    retries,        \* per request: local of request_questions
    questions,      \* per request: local of request_questions
    pos,            \* per request: next row of the running INSERT
    count,          \* per request: rows the running INSERT has inserted
    response,       \* per request: [status, body] once the handler ended
    cause,          \* per request: what ended the handler
    raw,            \* the JSON array on its way into __prepare_questions
    asked,          \* per request: the num of the last get_questions call
    fetches,        \* history: get_questions calls made by the request
    inserts,        \* history: insert_uniq_questions calls made
    insertedTotal,  \* history: sum of the counts those calls returned
    credited,       \* history: identities those returned counts stand for
    store0,         \* history: identities stored when the request began
    first,          \* history: the first batch of a request for one question
    fresh,          \* history: no fetched identity was stored or repeated
    allSeen         \* history: every fetched identity was already stored

vars ==
    <<table, xact, conn, pc, input, questions_num, retries, questions, pos,
      count, response, cause, raw, asked, fetches, inserts, insertedTotal,
      credited, store0, first, fresh, allSeen>>

\* ------------------------------------------------------------- the table
\* State of the transaction that wrote a row version.
XStatus(x) == IF x = "init" THEN "committed" ELSE xact[x]

Rows == BagToSet(table)
LiveRows == {row \in Rows : XStatus(row.xmin) \in {"active", "committed"}}
CommittedRows == {row \in Rows : XStatus(row.xmin) = "committed"}
CommittedIds == {row.id : row \in CommittedRows}

\* A row that was in the table before any modelled request.
OldRow(i) ==
    [id |-> i, question |-> <<"old", i>>, answer |-> <<"old", i>>,
     created_at |-> <<"old", i>>, xmin |-> "init"]

\* unnest(%s::int[], %s::text[], %s::text[], %s::timestamptz[]): row k.
UnnestRow(prep, k, x) ==
    [id |-> prep.id[k], question |-> prep.question[k], answer |-> prep.answer[k],
     created_at |-> prep.created_at[k], xmin |-> x]

\* Inputs of the request: the JSON value under 'questions_num', as Python
\* sees it.  isInt is isinstance(questions_num, int) and v is the value in
\* arithmetic and comparisons: a JSON number without fraction is an int; the
\* JSON booleans are bool, a subclass of int, with True == 1 and False == 0;
\* every other value (null, a string, a float, a missing key) is no int.
Inputs ==
    {[isInt |-> TRUE, isBool |-> FALSE, v |-> n] : n \in -1 .. MaxNum}
        \cup {[isInt |-> TRUE, isBool |-> TRUE, v |-> n] : n \in {0, 1}}
        \cup {[isInt |-> FALSE, isBool |-> FALSE, v |-> 0]}

NoInput == [isInt |-> FALSE, isBool |-> FALSE, v |-> 0]
NoResponse == [status |-> 0, body |-> <<>>]
EmptyDict == <<"{}">>

\* The state before any request: the table holds rows 1 .. n and batch is
\* the JSON array on its way into __prepare_questions.
Start(n, batch) ==
    /\ table = SetToBag({OldRow(i) : i \in 1 .. n})
    /\ raw = batch
    /\ xact = [r \in Reqs |-> "none"]
    /\ conn = [r \in Reqs |-> "none"]
    /\ pc = [r \in Reqs |-> "idle"]
    /\ input = [r \in Reqs |-> NoInput]
    /\ questions_num = [r \in Reqs |-> 0]
    /\ retries = [r \in Reqs |-> 0]
    /\ questions = [r \in Reqs |-> EmptyPrepared]
    /\ pos = [r \in Reqs |-> 0]
    /\ count = [r \in Reqs |-> 0]
    /\ response = [r \in Reqs |-> NoResponse]
    /\ cause = [r \in Reqs |-> "none"]
    /\ asked = [r \in Reqs |-> 0]
    /\ fetches = [r \in Reqs |-> 0]
    /\ inserts = [r \in Reqs |-> 0]
    /\ insertedTotal = [r \in Reqs |-> 0]
    /\ credited = [r \in Reqs |-> {}]
    /\ store0 = [r \in Reqs |-> {}]
    /\ first = [r \in Reqs |-> <<>>]
    /\ fresh = [r \in Reqs |-> TRUE]
    /\ allSeen = [r \in Reqs |-> TRUE]

\* The table holds rows 1 .. n of an earlier run (identities are
\* interchangeable, so these stand for every initial content).
Init == \E n \in 0 .. MaxId : Start(n, <<>>)

\* ------------------------------------------------------------ the handler
\* The handler ends with the response Flask sends for it.
Finish(r, status, body, why) ==
    /\ response' = [response EXCEPT ![r] = [status |-> status, body |-> body]]
    /\ cause' = [cause EXCEPT ![r] = why]
    /\ pc' = [pc EXCEPT ![r] = "end"]
    /\ UNCHANGED <<xact, questions_num, retries, questions, pos, count, inserts,
                   first, fresh, allSeen>>

\* An exception leaves request_questions: Flask answers 500.
Raise(r, why) == Finish(r, 500, <<>>, why)

\* Mutant of LoopHead: while retries >= 0.
LoopHeadOffByOne(r, retr) ==
    IF retr >= 0
      THEN /\ retries' = [retries EXCEPT ![r] = retr - 1]
           /\ pc' = [pc EXCEPT ![r] = "insert"]
           /\ pos' = [pos EXCEPT ![r] = 1]
           /\ count' = [count EXCEPT ![r] = 0]
           /\ xact' = [xact EXCEPT ![r] = IF @ = "none" THEN "active" ELSE @]
           /\ inserts' = [inserts EXCEPT ![r] = @ + 1]
           /\ UNCHANGED <<response, cause>>
      ELSE /\ response' = [response EXCEPT ![r] = [status |-> 500, body |-> <<>>]]
           /\ cause' = [cause EXCEPT ![r] = "exhausted"]
           /\ pc' = [pc EXCEPT ![r] = "end"]
           /\ retries' = [retries EXCEPT ![r] = retr]
           /\ UNCHANGED <<xact, pos, count, inserts>>

\* The head of the loop, reached with retries = retr: while retries > 0:
\* retries -= 1 and the INSERT statement starts (the connection opens its
\* transaction with its first statement); abort(500) after the loop.
LoopHead(r, retr) ==
    IF retr > 0
      THEN /\ retries' = [retries EXCEPT ![r] = retr - 1]
           /\ pc' = [pc EXCEPT ![r] = "insert"]
           /\ pos' = [pos EXCEPT ![r] = 1]
           /\ count' = [count EXCEPT ![r] = 0]
           /\ xact' = [xact EXCEPT ![r] = IF @ = "none" THEN "active" ELSE @]
           /\ inserts' = [inserts EXCEPT ![r] = @ + 1]
           /\ UNCHANGED <<response, cause>>
      ELSE /\ response' = [response EXCEPT ![r] = [status |-> 500, body |-> <<>>]]
           /\ cause' = [cause EXCEPT ![r] = "exhausted"]
           /\ pc' = [pc EXCEPT ![r] = "end"]
           /\ retries' = [retries EXCEPT ![r] = retr]
           /\ UNCHANGED <<xact, pos, count, inserts>>

Range(s) == {s[k] : k \in 1 .. Len(s)}
Distinct(s) == Cardinality(Range(s)) = Len(s)

\* Identities the table holds or a request in flight has been handed.
Known == {row.id : row \in Rows} \cup UNION {Range(questions[o].id) : o \in Reqs}

\* History kept of a batch the source returned.
NoteBatch(r, ids) ==
    /\ first' = [first EXCEPT ![r] = IF fetches[r] = 0 /\ Len(ids) = 1 THEN ids ELSE @]
    /\ fresh' = [o \in Reqs |->
                    IF o = r
                      THEN fresh[r] /\ Distinct(ids) /\ Range(ids) \cap Known = {}
                      ELSE fresh[o] /\ Range(ids) \cap Range(questions[o].id) = {}]
    /\ allSeen' = [allSeen EXCEPT ![r] = @ /\ Range(ids) \subseteq CommittedIds]

\* Mutant of Fetched: questions_num = fail_uniq_num (line 135) is left out.
FetchedStaleNum(r, num, retr) ==
    \E batch \in CompleteBatches(num) :
        /\ prepare_questions(batch) # KeyError
        /\ questions' = [questions EXCEPT ![r] = prepare_questions(batch)]
        /\ questions_num' = [questions_num EXCEPT ![r] = IF fetches[r] = 0 THEN num ELSE @]
        /\ NoteBatch(r, prepare_questions(batch).id)
        /\ LoopHead(r, retr)

\* questions = get_questions(num) returns (lines 125 and 134), questions_num
\* is what was asked for (line 135), and the loop head follows.
Fetched(r, num, retr) ==
    \E batch \in CompleteBatches(num) :
        /\ prepare_questions(batch) # KeyError
        /\ questions' = [questions EXCEPT ![r] = prepare_questions(batch)]
        /\ questions_num' = [questions_num EXCEPT ![r] = num]
        /\ NoteBatch(r, prepare_questions(batch).id)
        /\ LoopHead(r, retr)

\* Mutant of SourceFails: the exception is swallowed and the loop goes on
\* with the batch it has.
SourceFailsSwallowed(r) ==
    /\ cause' = [cause EXCEPT ![r] = "source"]
    /\ pc' = [pc EXCEPT ![r] = "insert"]
    /\ pos' = [pos EXCEPT ![r] = 1]
    /\ count' = [count EXCEPT ![r] = 0]
    /\ xact' = [xact EXCEPT ![r] = IF @ = "none" THEN "active" ELSE @]
    /\ inserts' = [inserts EXCEPT ![r] = @ + 1]
    /\ UNCHANGED <<response, questions_num, retries, questions, first, fresh,
                   allSeen>>

\* urlopen or json.loads raises inside get_questions.
SourceFails(r) == Raise(r, "source")

\* __prepare_questions raises KeyError on an object that lacks a field.
Malformed(r, num) ==
    /\ \E batch \in DefectiveBatches(num) : prepare_questions(batch) = KeyError
    /\ Raise(r, "malformed")

\* self.questions_service.get_questions(num) and what follows it.
get_questions(r, num, retr) ==
    \/ Fetched(r, num, retr)
    \/ SourceFails(r)
    \/ Malformed(r, num)

\* isinstance(questions_num, int) and questions_num >= 0
ValidNum(in) == in.isInt /\ in.v >= 0

\* Mutant of ZeroCase: the test is written for a negative count.
ZeroCaseNegative(in) == in.v < 0

\* if questions_num == 0
ZeroCase(in) == in.v = 0

\* The request arrives: get_conn, then request_questions up to its first
\* INSERT (lines 119-128).
Request(r) ==
    /\ pc[r] = "idle"
    /\ conn' = [conn EXCEPT ![r] = "held"]
    /\ store0' = [store0 EXCEPT ![r] = CommittedIds]
    /\ \E in \in Inputs :
          /\ input' = [input EXCEPT ![r] = in]
          /\ \/ /\ ~ValidNum(in)
                /\ Raise(r, "invalid")
                /\ UNCHANGED <<fetches, asked>>
             \/ /\ ValidNum(in)
                /\ ZeroCase(in)
                /\ Finish(r, 200, EmptyDict, "empty")
                /\ UNCHANGED <<fetches, asked>>
             \/ /\ ValidNum(in)
                /\ ~ZeroCase(in)
                /\ fetches' = [fetches EXCEPT ![r] = @ + 1]
                /\ asked' = [asked EXCEPT ![r] = in.v]
                /\ get_questions(r, in.v, RetryBudget)
    /\ UNCHANGED <<table, insertedTotal, credited, raw>>

\* ---------------------------------------------------- the INSERT statement
\* Mutant of Conflicts: the identity is looked up among committed rows only
\* (a SELECT before the INSERT instead of the unique index).
ConflictsCommittedOnly(r) ==
    {row \in CommittedRows : row.id = questions[r].id[pos[r]]}

\* Live row versions that carry the identity of the row the statement is at.
Conflicts(r) == {row \in LiveRows : row.id = questions[r].id[pos[r]]}

\* ON CONFLICT (id): the arbiter index holds the identity already, in a
\* committed row or in one this transaction wrote.
Conflicting(r) ==
    \E row \in Conflicts(r) : row.xmin = r \/ XStatus(row.xmin) = "committed"

\* The identity is held only by row versions of transactions still in
\* progress: the statement waits for them to commit or abort.
Waiting(r) ==
    /\ pc[r] = "insert"
    /\ pos[r] <= Len(questions[r].id)
    /\ Conflicts(r) # {}
    /\ ~Conflicting(r)

\* The transactions the statement of r waits for.
WaitsFor(r) == IF Waiting(r) THEN {row.xmin : row \in Conflicts(r)} ELSE {}

\* Mutant of InsertRow: ON CONFLICT (id) DO UPDATE, the row that holds the
\* identity is replaced and RETURNING gives it.
InsertRowDoUpdate(r) ==
    /\ pc[r] = "insert"
    /\ pos[r] <= Len(questions[r].id)
    /\ ~Waiting(r)
    /\ table' = (table (-) SetToBag(Conflicts(r)))
                    (+) SetToBag({UnnestRow(questions[r], pos[r], r)})
    /\ count' = [count EXCEPT ![r] = @ + 1]
    /\ pos' = [pos EXCEPT ![r] = @ + 1]
    /\ UNCHANGED <<xact, conn, pc, input, questions_num, retries, questions,
                   response, cause, raw, asked, fetches, inserts, insertedTotal,
                   credited, store0, first, fresh, allSeen>>

\* Mutant of InsertRow: COUNT(*) counts the rows of unnest, not the rows
\* RETURNING gives.
InsertRowCountsAll(r) ==
    /\ pc[r] = "insert"
    /\ pos[r] <= Len(questions[r].id)
    /\ ~Waiting(r)
    /\ IF Conflicting(r)
         THEN UNCHANGED table
         ELSE table' = table (+) SetToBag({UnnestRow(questions[r], pos[r], r)})
    /\ count' = [count EXCEPT ![r] = @ + 1]
    /\ pos' = [pos EXCEPT ![r] = @ + 1]
    /\ UNCHANGED <<xact, conn, pc, input, questions_num, retries, questions,
                   response, cause, raw, asked, fetches, inserts, insertedTotal,
                   credited, store0, first, fresh, allSeen>>

\* One row of INSERT INTO questions (SELECT * FROM unnest(...))
\* ON CONFLICT (id) DO NOTHING RETURNING id.
InsertRow(r) ==
    /\ pc[r] = "insert"
    /\ pos[r] <= Len(questions[r].id)
    /\ ~Waiting(r)
    /\ IF Conflicting(r)
         THEN UNCHANGED <<table, count>>
         ELSE /\ table' = table (+) SetToBag({UnnestRow(questions[r], pos[r], r)})
              /\ count' = [count EXCEPT ![r] = @ + 1]
    /\ pos' = [pos EXCEPT ![r] = @ + 1]
    /\ UNCHANGED <<xact, conn, pc, input, questions_num, retries, questions,
                   response, cause, raw, asked, fetches, inserts, insertedTotal,
                   credited, store0, first, fresh, allSeen>>

\* questions.question[-1]
LastQuestion(prep) == prep.question[Len(prep.question)]

\* Mutant of fail_uniq_num: the inserted rows are added, not subtracted.
FailUniqAdds(r) == questions_num[r] + count[r]

\* Mutant of fail_uniq_num: off by one.
FailUniqOffByOne(r) == questions_num[r] - count[r] + 1

\* fail_uniq_num = questions_num - inserted_questions_num
fail_uniq_num(r) == questions_num[r] - count[r]

\* Mutant of ReturnLast: return questions.question[0].
ReturnFirst(r) ==
    IF Len(questions[r].question) = 0
      THEN Raise(r, "index")
      ELSE Finish(r, 200, questions[r].question[1], "done")

\* return questions.question[-1]
ReturnLast(r) ==
    IF Len(questions[r].question) = 0
      THEN Raise(r, "index")
      ELSE Finish(r, 200, LastQuestion(questions[r]), "done")

\* Mutant of InsertReturn: with a shortfall and no retries left the handler
\* aborts without fetching again.
InsertReturnStopsAtZero(r) ==
    /\ pc[r] = "insert"
    /\ pos[r] > Len(questions[r].id)
    /\ insertedTotal' = [insertedTotal EXCEPT ![r] = @ + count[r]]
    /\ credited' = [credited EXCEPT ![r] = {row.id : row \in {x \in Rows : x.xmin = r}}]
    /\ IF fail_uniq_num(r) # 0
         THEN IF retries[r] > 0
                THEN /\ fetches' = [fetches EXCEPT ![r] = @ + 1]
                     /\ asked' = [asked EXCEPT ![r] = fail_uniq_num(r)]
                     /\ get_questions(r, fail_uniq_num(r), retries[r])
                ELSE /\ Finish(r, 500, <<>>, "exhausted")
                     /\ UNCHANGED <<fetches, asked>>
         ELSE /\ ReturnLast(r)
              /\ UNCHANGED <<fetches, asked>>
    /\ UNCHANGED <<table, conn, input, store0, raw>>

\* The statement returns SELECT COUNT(*) FROM inserted (lines 103-105), and
\* the handler returns or fetches the shortfall and loops (lines 132-138).
InsertReturn(r) ==
    /\ pc[r] = "insert"
    /\ pos[r] > Len(questions[r].id)
    /\ insertedTotal' = [insertedTotal EXCEPT ![r] = @ + count[r]]
    /\ credited' = [credited EXCEPT ![r] = {row.id : row \in {x \in Rows : x.xmin = r}}]
    /\ IF fail_uniq_num(r) # 0
         THEN /\ fetches' = [fetches EXCEPT ![r] = @ + 1]
              /\ asked' = [asked EXCEPT ![r] = fail_uniq_num(r)]
              /\ get_questions(r, fail_uniq_num(r), retries[r])
         ELSE /\ ReturnLast(r)
              /\ UNCHANGED <<fetches, asked>>
    /\ UNCHANGED <<table, conn, input, store0, raw>>

\* cur.execute raises: the transaction is over on the server (its row
\* versions are dead and its locks released), either "aborted" with the
\* connection still usable or "broken" with the connection lost, and the
\* exception leaves request_questions.
ExecuteError(r, why, state) ==
    /\ response' = [response EXCEPT ![r] = [status |-> 500, body |-> <<>>]]
    /\ cause' = [cause EXCEPT ![r] = why]
    /\ pc' = [pc EXCEPT ![r] = "end"]
    /\ xact' = [xact EXCEPT ![r] = state]
    /\ UNCHANGED <<table, conn, input, questions_num, retries, questions, pos,
                   count, credited, raw, asked, fetches, inserts, insertedTotal,
                   store0, first, fresh, allSeen>>

\* The statement fails: the server reports an error, or the connection to
\* the server is lost.
StoreFail(r) ==
    /\ pc[r] = "insert"
    /\ \/ ExecuteError(r, "store", "aborted")
       \/ ExecuteError(r, "store", "broken")

\* Mutant of Deadlock: the server has no deadlock detector.
DeadlockUndetected(r) ==
    /\ Waiting(r)
    /\ FALSE
    /\ UNCHANGED vars

\* Two statements wait for each other's transaction: the server's deadlock
\* detector cancels one of them with an error.
Deadlock(r) ==
    /\ Waiting(r)
    /\ \E o \in WaitsFor(r) \ {r} : r \in WaitsFor(o)
    /\ ExecuteError(r, "deadlock", "aborted")

\* Mutant of close_conn: conn.rollback() instead of conn.commit().
close_conn_rollback(r) ==
    /\ pc[r] = "end"
    /\ conn[r] = "held"
    /\ xact' = [xact EXCEPT ![r] = IF @ = "active" THEN "aborted" ELSE @]
    /\ conn' = [conn EXCEPT ![r] = IF xact[r] = "broken" THEN @ ELSE "returned"]
    /\ pc' = [pc EXCEPT ![r] = "closed"]
    /\ questions_num' = [questions_num EXCEPT ![r] = 0]
    /\ retries' = [retries EXCEPT ![r] = 0]
    /\ questions' = [questions EXCEPT ![r] = EmptyPrepared]
    /\ pos' = [pos EXCEPT ![r] = 0]
    /\ count' = [count EXCEPT ![r] = 0]
    /\ input' = [input EXCEPT ![r] = NoInput]
    /\ asked' = [asked EXCEPT ![r] = 0]
    /\ store0' = [store0 EXCEPT ![r] = {}]
    /\ fresh' = [fresh EXCEPT ![r] = TRUE]
    /\ allSeen' = [allSeen EXCEPT ![r] = TRUE]
    /\ UNCHANGED <<table, response, cause, raw, fetches, inserts,
                   insertedTotal, credited, first>>

\* teardown_request: close_conn commits whatever the transaction holds (a
\* COMMIT of an aborted transaction is a rollback) and returns the
\* connection to the pool; on a lost connection conn.commit() raises and
\* putconn is not reached, so the pool still counts the connection as
\* checked out.  The handler's locals are gone.
close_conn(r) ==
    /\ pc[r] = "end"
    /\ conn[r] = "held"
    /\ xact' = [xact EXCEPT ![r] = IF @ = "active" THEN "committed" ELSE @]
    /\ conn' = [conn EXCEPT ![r] = IF xact[r] = "broken" THEN @ ELSE "returned"]
    /\ pc' = [pc EXCEPT ![r] = "closed"]
    /\ questions_num' = [questions_num EXCEPT ![r] = 0]
    /\ retries' = [retries EXCEPT ![r] = 0]
    /\ questions' = [questions EXCEPT ![r] = EmptyPrepared]
    /\ pos' = [pos EXCEPT ![r] = 0]
    /\ count' = [count EXCEPT ![r] = 0]
    /\ input' = [input EXCEPT ![r] = NoInput]
    /\ asked' = [asked EXCEPT ![r] = 0]
    /\ store0' = [store0 EXCEPT ![r] = {}]
    /\ fresh' = [fresh EXCEPT ![r] = TRUE]
    /\ allSeen' = [allSeen EXCEPT ![r] = TRUE]
    /\ UNCHANGED <<table, response, cause, raw, fetches, inserts,
                   insertedTotal, credited, first>>

Next ==
    \E r \in Reqs :
        \/ Request(r)
        \/ InsertRow(r)
        \/ InsertReturn(r)
        \/ StoreFail(r)
        \/ Deadlock(r)
        \/ close_conn(r)

Spec == Init /\ [][Next]_vars

\* The same application serving a single request.
NextSolo ==
    \/ Request("r1")
    \/ InsertRow("r1")
    \/ InsertReturn("r1")
    \/ StoreFail("r1")
    \/ close_conn("r1")

SpecSolo == Init /\ [][NextSolo]_vars

\* DefaultQuestionService.get_questions on its own: the delegate has
\* answered with any JSON array ...
InitPrep == \E batch \in RawBatches : Start(0, batch)

\* ... and __prepare_questions returns the columns or raises KeyError.
PrepareRaw(r) ==
    /\ pc[r] = "idle"
    /\ \/ /\ prepare_questions(raw) # KeyError
          /\ questions' = [questions EXCEPT ![r] = prepare_questions(raw)]
          /\ pc' = [pc EXCEPT ![r] = "prepared"]
          /\ UNCHANGED cause
       \/ /\ prepare_questions(raw) = KeyError
          /\ cause' = [cause EXCEPT ![r] = "malformed"]
          /\ pc' = [pc EXCEPT ![r] = "raised"]
          /\ UNCHANGED questions
    /\ UNCHANGED <<table, xact, conn, input, questions_num, retries, pos, count,
                   response, raw, asked, fetches, inserts, insertedTotal,
                   credited, store0, first, fresh, allSeen>>

NextPrep == PrepareRaw("r1")

SpecPrep == InitPrep /\ [][NextPrep]_vars

\* The table right after init_schema: no rows.
InitEmpty == Start(0, <<>>)

\* The concurrent requests, started on the empty table, under the
\* scheduling the deployment gives them: a statement the server can execute
\* is executed, a handler that can go on does, the server's deadlock
\* detector runs, and Flask runs teardown after every request.  Failures of
\* the store are not bound to happen.
SpecLive ==
    /\ InitEmpty
    /\ [][Next]_vars
    /\ \A r \in Reqs :
          /\ WF_vars(InsertRow(r))
          /\ WF_vars(InsertReturn(r))
          /\ WF_vars(Deadlock(r))
          /\ WF_vars(close_conn(r))

\* ---------------------------------------------------------------- claims
\* Row versions request r wrote, and their identities.
RowsOf(r) == {row \in Rows : row.xmin = r}
IdsOf(r) == {row.id : row \in RowsOf(r)}

\* The handler of r has returned and teardown has not run yet.
Ended(r) == pc[r] = "end"

\* Failures of the source, of normalization and of the store.
Infra == {"source", "malformed", "store", "deadlock"}

\* C1: a request for N > 0 questions that returns successfully was told by
\* its insert calls of N inserted rows in total, and these are N rows with
\* N different identities, none of them stored when the request began.
C1_ExactlyNNew ==
    \A r \in Reqs :
        (Ended(r) /\ cause[r] = "done") =>
            /\ input[r].v > 0
            /\ insertedTotal[r] = input[r].v
            /\ Cardinality(credited[r]) = input[r].v
            /\ credited[r] = IdsOf(r)
            /\ \A row \in RowsOf(r) : CopiesIn(row, table) = 1
            /\ Cardinality(RowsOf(r)) = input[r].v
            /\ credited[r] \cap store0[r] = {}

\* A request for MaxNum questions succeeded in its second round against a
\* table that held rows before.
C1_Witness ==
    \E r \in Reqs :
        /\ Ended(r) /\ cause[r] = "done"
        /\ input[r].v = MaxNum
        /\ inserts[r] = 2
        /\ store0[r] # {}

\* C2: a request for 0 questions returns the empty result, and has made no
\* get_questions call and no insert call (its connection ran no statement).
C2_ZeroIsEmpty ==
    \A r \in Reqs :
        (Ended(r) /\ input[r] = [isInt |-> TRUE, isBool |-> FALSE, v |-> 0]) =>
            /\ cause[r] = "empty"
            /\ response[r] = [status |-> 200, body |-> EmptyDict]
            /\ fetches[r] = 0
            /\ inserts[r] = 0
            /\ xact[r] = "none"
            /\ RowsOf(r) = {}

C2_Witness ==
    \E r \in Reqs :
        /\ Ended(r)
        /\ input[r] = [isInt |-> TRUE, isBool |-> FALSE, v |-> 0]
        /\ response[r] = [status |-> 200, body |-> EmptyDict]

\* C3: while the source has handed the request no identity that was stored
\* or repeated, the request makes no second get_questions or insert call;
\* when it returns, it has made exactly one of each, that insert counted
\* all N rows, and the result is the question of the last item of the batch.
C3_FreshSourceOneRound ==
    \A r \in Reqs :
        (fresh[r] /\ pc[r] \in {"insert", "end"} /\ ValidNum(input[r]) /\ input[r].v > 0) =>
            /\ fetches[r] = 1
            /\ inserts[r] <= 1
            /\ cause[r] # "exhausted"
            /\ cause[r] = "done" =>
                  /\ inserts[r] = 1
                  /\ count[r] = input[r].v
                  /\ insertedTotal[r] = input[r].v
                  /\ Len(questions[r].id) = input[r].v
                  /\ response[r] =
                        [status |-> 200,
                         body |-> questions[r].question[Len(questions[r].question)]]
                  /\ response[r].body = <<"Q", questions[r].id[input[r].v]>>

C3_Witness ==
    \E r \in Reqs :
        /\ Ended(r) /\ cause[r] = "done" /\ fresh[r]
        /\ input[r].v = MaxNum
        /\ fetches[r] = 1 /\ inserts[r] = 1
        /\ store0[r] # {}

\* C4: a request makes at most RetryBudget insert calls; it ends exhausted
\* only after exactly RetryBudget of them, with the 500 response; and when
\* every identity the source handed it was already stored (and neither
\* source nor store failed), exhausted is how it ends.
C4_ExhaustionAfterBudget ==
    \A r \in Reqs :
        /\ inserts[r] <= RetryBudget
        /\ cause[r] = "exhausted" =>
              /\ inserts[r] = RetryBudget
              /\ response[r] = [status |-> 500, body |-> <<>>]
        /\ (Ended(r) /\ fetches[r] > 0 /\ allSeen[r] /\ cause[r] \notin Infra) =>
              /\ cause[r] = "exhausted"
              /\ inserts[r] = RetryBudget
              /\ insertedTotal[r] = 0
              /\ RowsOf(r) = {}

C4_Witness ==
    \E r \in Reqs :
        /\ Ended(r) /\ cause[r] = "exhausted" /\ allSeen[r]
        /\ inserts[r] = RetryBudget
        /\ response[r].status = 500

\* C5: the table never holds two live rows (committed or written by a
\* transaction in progress) with the same identity.
C5_UniqueIdentity ==
    \A row \in LiveRows :
        /\ CopiesIn(row, table) = 1
        /\ \A other \in LiveRows : other.id = row.id => other = row

\* Two requests run INSERT statements over a common identity at the same
\* time; one has written it and the other waits.
C5_Witness ==
    \E r \in Reqs, o \in Reqs :
        /\ r # o
        /\ Waiting(o)
        /\ pc[r] = "insert"
        /\ questions[o].id[pos[o]] \in IdsOf(r)

\* C6: no identity is counted by the returned insert calls of two requests
\* that are in flight together (stated for requests whose statements met
\* no failure of the store's connection or server).
C6_SingleCredit ==
    \A r \in Reqs, o \in Reqs :
        (/\ r # o
         /\ pc[r] \in {"insert", "end"}
         /\ pc[o] \in {"insert", "end"}
         /\ cause[r] # "store"
         /\ cause[o] # "store") =>
            credited[r] \cap credited[o] = {}

\* C7: of two requests for one question whose first batch was the same
\* identity, not stored before, never both return that question; and once
\* both have ended without a source or store failure, exactly one has
\* inserted it and returned it after a single fetch, and the other has
\* not inserted it and has fetched again.
C7_OneWinner ==
    \A r \in Reqs, o \in Reqs :
        (/\ r # o
         /\ first[r] # <<>>
         /\ first[r] = first[o]
         /\ OldRow(first[r][1]) \notin Rows) =>
            LET a == first[r][1]
                won(x) == /\ response[x] = [status |-> 200, body |-> <<"Q", a>>]
                          /\ a \in credited[x]
                          /\ fetches[x] = 1
                lost(x) == /\ response[x].body # <<"Q", a>>
                           /\ a \notin credited[x]
                           /\ fetches[x] >= 2
            IN  /\ ~(response[r].body = <<"Q", a>> /\ response[o].body = <<"Q", a>>)
                /\ (/\ pc[r] \in {"end", "closed"}
                    /\ pc[o] \in {"end", "closed"}
                    /\ cause[r] \notin Infra
                    /\ cause[o] \notin Infra) =>
                       \/ won(r) /\ lost(o)
                       \/ won(o) /\ lost(r)

\* Both have ended: one returned the common identity, the other fetched
\* again and returned another one.
C7_Witness ==
    \E r \in Reqs, o \in Reqs :
        /\ r # o
        /\ first[r] # <<>> /\ first[r] = first[o]
        /\ OldRow(first[r][1]) \notin Rows
        /\ pc[r] = "closed" /\ Ended(o)
        /\ response[r] = [status |-> 200, body |-> <<"Q", first[r][1]>>]
        /\ response[o].status = 200
        /\ fetches[o] = 2

\* C8: a successful request returns the question of the last item of the
\* batch of its last insert call, and that call inserted every item of the
\* batch (its count is the batch's length, each identity once).
C8_LastOfLastBatch ==
    \A r \in Reqs :
        (Ended(r) /\ cause[r] = "done") =>
            /\ Len(questions[r].id) > 0
            /\ response[r] =
                  [status |-> 200,
                   body |-> questions[r].question[Len(questions[r].question)]]
            /\ response[r].body = <<"Q", questions[r].id[Len(questions[r].id)]>>
            /\ count[r] = Len(questions[r].id)
            /\ Distinct(questions[r].id)
            /\ Range(questions[r].id) \subseteq IdsOf(r)
            /\ Range(questions[r].id) \cap store0[r] = {}

\* The scenario: the table holds identity 1, two are asked for, the first
\* batch is [1, 2] and the second is [3].
C8_Witness ==
    \E r \in Reqs :
        /\ Ended(r) /\ cause[r] = "done"
        /\ store0[r] = {1}
        /\ input[r].v = 2
        /\ fetches[r] = 2
        /\ questions[r].id = <<3>>
        /\ response[r].body = <<"Q", 3>>
        /\ {row.id : row \in LiveRows} = {1, 2, 3}

\* C9: the step at which the source, normalization or the store fails ends
\* the handler with the bodiless 500 response without touching retries or
\* the batch or starting an insert; from then on the request makes no
\* get_questions or insert call and its response stays as it is.
C9_FailureEndsRequest ==
    [][\A r \in Reqs :
          /\ (cause[r] = "none" /\ cause'[r] \in Infra) =>
                /\ pc'[r] = "end"
                /\ response'[r] = [status |-> 500, body |-> <<>>]
                /\ retries'[r] = retries[r]
                /\ questions'[r] = questions[r]
                /\ inserts'[r] = inserts[r]
          /\ cause[r] \in Infra =>
                /\ cause'[r] = cause[r]
                /\ pc'[r] \in {"end", "closed"}
                /\ fetches'[r] = fetches[r]
                /\ inserts'[r] = inserts[r]
                /\ response'[r] = response[r]
                /\ RowsOf(r)' = RowsOf(r)]_vars

\* The source failed at the second get_questions call of a request.
C9_Witness ==
    \E r \in Reqs :
        /\ pc[r] = "closed"
        /\ cause[r] = "source"
        /\ fetches[r] = 2
        /\ inserts[r] = 1
        /\ response[r] = [status |-> 500, body |-> <<>>]

\* C10: the response of a request that ended exhausted differs from the
\* response of a request that ended by a source, normalization or store
\* failure.
C10_ExhaustionDistinct ==
    \A r \in Reqs, o \in Reqs :
        (cause[r] = "exhausted" /\ cause[o] \in Infra) => response[r] # response[o]

\* The JSON value under 'questions_num' is an integer number.
JSONInteger(in) == in.isInt /\ ~in.isBool

\* C11: a request whose count is negative or not an integer is rejected as a
\* failure before any get_questions or insert call, and writes no row.
C11_InvalidRejected ==
    \A r \in Reqs :
        (pc[r] \in {"insert", "end"} /\ (~JSONInteger(input[r]) \/ input[r].v < 0)) =>
            /\ pc[r] = "end"
            /\ response[r] = [status |-> 500, body |-> <<>>]
            /\ fetches[r] = 0
            /\ inserts[r] = 0
            /\ RowsOf(r) = {}

\* The INSERT statement of r has processed its last row: the insert call
\* is about to return count[r].
InsertDone(r) == pc[r] = "insert" /\ pos[r] > Len(questions[r].id)

\* C12 as stated: at every insert that returns, the new remaining
\* (questions_num - inserted) is within 0 .. requestedCount and is strictly
\* less than the old remaining or is 0.
C12_RemainingDecreases ==
    \A r \in Reqs :
        InsertDone(r) =>
            /\ questions_num[r] - count[r] \in 0 .. input[r].v
            /\ \/ questions_num[r] - count[r] < questions_num[r]
               \/ questions_num[r] - count[r] = 0

\* C12 amended: at every insert that returns, the new remaining is within
\* 0 .. requestedCount and never more than the old remaining; it is
\* strictly less exactly when the insert counted a row, and it is what the
\* loop carries on with as questions_num.
C12_RemainingNeverGrows ==
    [][\A r \in Reqs :
          (InsertDone(r) /\ (pc'[r] # pc[r] \/ pos'[r] # pos[r]) /\ cause'[r] # "store") =>
              /\ questions_num[r] \in 1 .. input[r].v
              /\ questions_num[r] - count[r] \in 0 .. input[r].v
              /\ questions_num[r] - count[r] <= questions_num[r]
              /\ (questions_num[r] - count[r] < questions_num[r]) <=> (count[r] > 0)
              /\ (questions_num[r] - count[r] = 0) <=> (cause'[r] = "done")
              /\ pc'[r] = "insert" => questions_num'[r] = questions_num[r] - count[r]]_vars

\* The first insert of a request for two returned 0: the remaining is still
\* 2 at the second insert.
C12_Witness ==
    \E r \in Reqs :
        /\ pc[r] = "insert"
        /\ input[r].v = 2
        /\ inserts[r] = 2
        /\ fetches[r] = 2
        /\ questions_num[r] = 2
        /\ insertedTotal[r] = 0

\* C13: the first get_questions call asks for questions_num of the request
\* and every later one for the shortfall of the insert just before it; the
\* batch of every insert call is as long as the current questions_num.
C13_FetchAsksShortfall ==
    [][\A r \in Reqs :
          /\ (pc[r] = "idle" /\ fetches'[r] # fetches[r]) =>
                /\ fetches'[r] = fetches[r] + 1
                /\ asked'[r] = input'[r].v
          /\ (pc[r] # "idle" /\ fetches'[r] # fetches[r]) =>
                /\ InsertDone(r)
                /\ fetches'[r] = fetches[r] + 1
                /\ asked'[r] = questions_num[r] - count[r]
                /\ asked'[r] > 0
          /\ pc'[r] = "insert" =>
                /\ Len(questions'[r].id) = questions_num'[r]
                /\ questions_num'[r] = asked'[r]
                /\ Len(questions'[r].question) = questions_num'[r]]_vars

\* The second get_questions call of a request for two asked for one.
C13_Witness ==
    \E r \in Reqs :
        /\ pc[r] = "insert"
        /\ input[r].v = 2
        /\ fetches[r] = 2
        /\ asked[r] = 1
        /\ Len(questions[r].id) = 1

\* The step at which the insert call of r returns to the loop (and not the
\* one at which the statement fails).
InsertReturns(r) ==
    InsertDone(r) /\ (pc'[r] # pc[r] \/ pos'[r] # pos[r]) /\ cause'[r] # "store"

\* Done and Exhausted are terminal: no fetch or insert follows them.
Terminal(r) ==
    cause[r] \in {"done", "exhausted"} =>
        /\ cause'[r] = cause[r]
        /\ fetches'[r] = fetches[r]
        /\ inserts'[r] = inserts[r]
        /\ response'[r] = response[r]
        /\ pc'[r] \in {"end", "closed"}

\* C14 as stated: after an insert the request fetches again only when a
\* shortfall is left and retries remain; with a shortfall and no retries
\* left it ends exhausted without another fetch; Done and Exhausted are
\* terminal.
C14_NoFetchWithoutRetries ==
    [][\A r \in Reqs :
          /\ (InsertReturns(r) /\ fetches'[r] # fetches[r]) =>
                (questions_num[r] - count[r] > 0 /\ retries[r] > 0)
          /\ (InsertReturns(r) /\ questions_num[r] - count[r] > 0 /\ retries[r] = 0) =>
                (cause'[r] = "exhausted" /\ fetches'[r] = fetches[r])
          /\ Terminal(r)]_vars

\* C14 amended: Idle -> Fetching -> Inserting; after an insert the request
\* is Done when no shortfall is left and otherwise fetches again, whether
\* or not retries remain; after that fetch it inserts when retries remain
\* and ends exhausted when none does (unless the fetch failed); every
\* insert follows a fetch; Done and Exhausted are terminal.
C14_StateMachine ==
    [][\A r \in Reqs :
          /\ (pc[r] = "idle" /\ pc'[r] = "insert") =>
                (fetches'[r] = fetches[r] + 1 /\ inserts'[r] = inserts[r] + 1)
          /\ (InsertReturns(r) /\ questions_num[r] - count[r] = 0) =>
                /\ cause'[r] = "done"
                /\ fetches'[r] = fetches[r]
                /\ inserts'[r] = inserts[r]
          /\ (InsertReturns(r) /\ questions_num[r] - count[r] # 0) =>
                /\ questions_num[r] - count[r] > 0
                /\ fetches'[r] = fetches[r] + 1
                /\ cause'[r] \in {"none", "exhausted", "source", "malformed"}
                /\ (cause'[r] = "none") <=> (pc'[r] = "insert")
                /\ (pc'[r] = "insert") =>
                      /\ retries[r] > 0
                      /\ retries'[r] = retries[r] - 1
                      /\ inserts'[r] = inserts[r] + 1
                /\ (cause'[r] = "exhausted") =>
                      (retries[r] = 0 /\ inserts'[r] = inserts[r])
                /\ (retries[r] = 0) => (cause'[r] # "none")
          /\ (inserts'[r] # inserts[r]) =>
                (inserts'[r] = inserts[r] + 1 /\ fetches'[r] = fetches[r] + 1)
          /\ Terminal(r)]_vars

\* A request ended exhausted after one more get_questions call than insert
\* calls: the last insert left a shortfall with no retries and was followed
\* by a fetch.
C14_Witness ==
    \E r \in Reqs :
        /\ Ended(r)
        /\ cause[r] = "exhausted"
        /\ inserts[r] = RetryBudget
        /\ fetches[r] = RetryBudget + 1
        /\ retries[r] = 0

\* Identities of the live rows.
LiveIds == {row.id : row \in LiveRows}

\* C15: the rows that the returned insert calls of a request counted are
\* still in the table, as rows of that request, when the request has ended
\* in failure (exhaustion, source, normalization or store failure) and from
\* then on.
C15_ProgressKept ==
    \A r \in Reqs :
        (pc[r] \in {"end", "closed"} /\ cause[r] \in Infra \cup {"exhausted"}) =>
            credited[r] \subseteq {row.id : row \in {x \in LiveRows : x.xmin = r}}

\* C16: when the INSERT statement of the only request has processed its
\* batch, its count is the number of distinct identities of the batch that
\* were not stored before the call, the stored identities are the old ones
\* plus the batch's, each in one row, and the rows that existed are still
\* there as they were.
C16_CountsDistinctNew ==
    \A r \in Reqs :
        InsertDone(r) =>
            LET before == store0[r] \cup credited[r]
                batch == Range(questions[r].id)
            IN  /\ count[r] = Cardinality(batch \ before)
                /\ LiveIds = before \cup batch
                /\ \A row \in LiveRows : CopiesIn(row, table) = 1
                /\ Cardinality(LiveRows) = Cardinality(LiveIds)
                /\ \A i \in store0[r] : OldRow(i) \in LiveRows
                /\ \A k \in 1 .. Len(questions[r].id) :
                      questions[r].id[k] \notin before =>
                          UnnestRow(questions[r], k, r) \in LiveRows
                /\ IdsOf(r) = credited[r] \cup (batch \ before)

\* A batch that repeats one identity, not stored before, was processed
\* against a table that held rows: it counts once.
C16_Witness ==
    \E r \in Reqs :
        /\ InsertDone(r)
        /\ Len(questions[r].id) = 2
        /\ questions[r].id[1] = questions[r].id[2]
        /\ questions[r].id[1] \notin store0[r]
        /\ store0[r] # {}
        /\ count[r] = 1

\* C17: every request that has started its loop eventually ends (done,
\* exhausted or failed), having made no more than RetryBudget insert calls,
\* whatever the other request does.
C17_EveryRequestEnds ==
    \A r \in Reqs :
        (pc[r] = "insert") ~>
            (pc[r] \in {"end", "closed"} /\ cause[r] # "none" /\ inserts[r] <= RetryBudget)

\* Each of two requests waits for a row the other has written.
C17_Witness ==
    \E r \in Reqs, o \in Reqs :
        /\ r # o
        /\ Waiting(r) /\ Waiting(o)
        /\ o \in WaitsFor(r)
        /\ r \in WaitsFor(o)

\* C18: a request in flight holds its connection, and once teardown has run
\* the connection is back in the pool, however the request ended.
C18_ConnectionReleased ==
    \A r \in Reqs :
        /\ pc[r] \in {"insert", "end"} => conn[r] = "held"
        /\ pc[r] = "closed" => conn[r] = "returned"

\* C19: when __prepare_questions returns, each of the four columns is as
\* long as the batch and holds at every index the field of the batch's
\* item at that index; it raises exactly when an item lacks a field.
C19_ColumnsFollowBatch ==
    \A r \in Reqs :
        /\ pc[r] = "prepared" =>
              /\ \A f \in Fields : Len(questions[r][f]) = Len(raw)
              /\ \A k \in 1 .. Len(raw), f \in Fields :
                    /\ f \in DOMAIN raw[k]
                    /\ questions[r][f][k] = raw[k][f]
        /\ pc[r] = "raised" =>
              /\ cause[r] = "malformed"
              /\ \E k \in 1 .. Len(raw) : Fields \ DOMAIN raw[k] # {}
              /\ questions[r] = EmptyPrepared

\* A batch of two complete items with different identities was prepared.
C19_Witness ==
    \E r \in Reqs :
        /\ pc[r] = "prepared"
        /\ Len(raw) = 2
        /\ raw[1]["id"] # raw[2]["id"]
        /\ questions[r].id = <<raw[1]["id"], raw[2]["id"]>>

====
